---- MODULE Spec2Model ----
(***************************************************************************)
(* The authentication core of async_rawr (src/src/auth/mod.rs): the        *)
(* Authenticator trait, its two strategies AnonymousAuthenticator and      *)
(* PasswordAuthenticator, and the shared handle Arc<Mutex<..>> that the    *)
(* constructors return.  Concurrent flows (tasks) take the handle's lock,  *)
(* call operations of the wrapped strategy and release the lock.  The two  *)
(* network operations, login and logout, are modelled step by step: one    *)
(* step per suspension point (.await), so that failures and cancellation   *)
(* can strike between the steps exactly where they can in the code.        *)
(***************************************************************************)
EXTENDS Integers, Sequences, FiniteSets, TLC

VARIABLES
    kind,             \* which strategy the handle wraps
    token,            \* PasswordAuthenticator.token : Option<String>
    expiration_time,  \* PasswordAuthenticator.expiration_time : Option<u128>
    now,              \* the system clock, in ms relative to UNIX_EPOCH
    lock,             \* the tokio Mutex: the flow holding the guard, if any
    queue,            \* flows suspended in lock().await, in arrival order
    pc,               \* position of every flow
    net,              \* requests sent and not yet answered
    pre,              \* token and expiration_time when the running call began
    last,             \* the call that completed last and its outcome (none
                      \* while a login or logout is suspended)
    sent,             \* urls of the requests the running call (or, between
                      \* calls, the call that completed last) has issued
    session,          \* "new" since construction, "in" since a login returned
                      \* Ok(true), "out" since a logout returned Ok(())
    chain,            \* per flow: progress of "checked refresh, logged in"
    refresh           \* what the refresh scenario (SpecRefresh) records

vars ==
    <<kind, token, expiration_time, now, lock, queue, pc, net, pre, last, sent,
      session, chain, refresh>>

----------------------------------------------------------------------------
(* Bounds of the model. *)

NumFlows == 2
MaxClock == 1000
\* The integer type of TokenResponseData.expires_in is narrower than u128
\* (login casts the product to u128); the model wraps its arithmetic at
\* this modulus, a scaled-down stand-in for the type's 2^w.
ExpiresInModulus == 65536
\* The largest expires_in a response carries; large enough for
\* expires_in * 1000 to exceed ExpiresInModulus.
MaxExpiresIn == 66

Flows == 1..NumFlows

(* Rust's Option. *)
None == <<>>
Some(x) == <<x>>
is_some(o) == o # None
is_none(o) == o = None
unwrap(o) == o[1]

----------------------------------------------------------------------------
(* Inputs. *)

\* Credentials given to PasswordAuthenticator::new.
client_id == "cid"
client_secret == "csec"
username == "alice"
password == "pw1"

\* access_token values the token endpoint may return; the JSON string of
\* the second one holds a line feed.
Tokens == {"tokA", "tok<LF>"}
ExpiresInValues == {0, 1, MaxExpiresIn}
\* A decoded TokenResponseData.
TokenResponses == [access_token : Tokens, expires_in : ExpiresInValues]
\* The bodies a success response may carry: one that does not decode into
\* TokenResponseData, or a decoded one.
Malformed == <<>>
Bodies == {Malformed} \cup {<<r>> : r \in TokenResponses}

\* HTTP statuses the endpoints may answer with.
StatusCodes == {200, 500}

\* user_agent arguments: the second one holds a line feed, which
\* HeaderValue::from_str rejects.
UserAgents == {"rawr", "rawr<LF>"}

HeaderNames == {"authorization", "user-agent"}
EmptyHeaderMap == [n \in HeaderNames |-> None]
\* The header collections callers hand to headers().
HeaderInputs ==
    { EmptyHeaderMap,
      [n \in HeaderNames |->
          IF n = "authorization" THEN Some("Basic old") ELSE Some("rawr")] }

----------------------------------------------------------------------------
(* Pure helpers. *)

\* HeaderValue::from_str: Err on a string with control characters.
HeaderValueFromStrOk(s) == s \notin {"rawr<LF>", "Bearer tok<LF>"}

\* HeaderMap::insert: sets the value of one name, replacing an old value.
insert(h, name, value) == [h EXCEPT ![name] = Some(value)]

\* base64::encode, kept symbolic and injective.
base64_encode(s) == "b64(" \o s \o ")"

\* StatusCode::into_result (crate::error::http_error): Ok for a success
\* status, Err otherwise.
into_result(status) == IF status \in 200..299 THEN "Ok" ELSE "Err"

\* SystemTime::now().duration_since(UNIX_EPOCH): Err when the clock is set
\* before the epoch, and then .unwrap() panics.
duration_since_epoch_ok(clock) == clock >= 0

MillisPerSecond == 1000

needs_token_refresh_strict(exp, i) ==
    IF is_none(exp) THEN TRUE ELSE i > unwrap(exp)

needs_token_refresh_inverted(exp, i) ==
    IF is_none(exp) THEN TRUE ELSE i <= unwrap(exp)

needs_token_refresh_absent_fresh(exp, i) ==
    IF is_none(exp) THEN FALSE ELSE i >= unwrap(exp)

\* The body of needs_token_refresh once the clock has been read as i.
needs_token_refresh(exp, i) ==
    IF is_none(exp) THEN TRUE ELSE i >= unwrap(exp)

bool_str(b) == IF b THEN "true" ELSE "false"

----------------------------------------------------------------------------
(* What the model remembers about calls. *)

NoCall ==
    [flow |-> 0, op |-> "none", val |-> "none", resp |-> None, at |-> None,
     hin |-> None, hout |-> None, chained |-> FALSE, own |-> None, same |-> FALSE]

Outcome(f, op, val) == [NoCall EXCEPT !.flow = f, !.op = op, !.val = val]

NoChain == [st |-> "none", tok |-> None, same |-> TRUE]

\* The refresh scenario records the flows that invoked the token-exchange
\* endpoint, in order, the clock reading of every flow's check and the
\* expiry every flow's own successful login stored.
NoRefresh ==
    [exchanges |-> <<>>,
     checked |-> [f \in Flows |-> None],
     stored |-> [f \in Flows |-> None]]

\* The requests of flow f are dropped from the network (answered, failed,
\* or abandoned with the future that was awaiting them).
Without(f) == {r \in net : r.flow # f}

----------------------------------------------------------------------------
(* Construction: AnonymousAuthenticator::new / PasswordAuthenticator::new.  *)
(* The clock may or may not be set before the epoch.                        *)

Init ==
    /\ kind \in {"Anonymous", "Password"}
    /\ token = None
    /\ expiration_time = None
    /\ now \in {-1, 0}
    /\ lock = None
    /\ queue = <<>>
    /\ pc = [f \in Flows |-> "idle"]
    /\ net = {}
    /\ pre = [token |-> None, expiration_time |-> None]
    /\ last = NoCall
    /\ sent = <<>>
    /\ session = "new"
    /\ chain = [f \in Flows |-> NoChain]
    /\ refresh = NoRefresh

----------------------------------------------------------------------------
(* The shared handle: Arc<tokio::sync::Mutex<_>>.  Every operation of the   *)
(* trait takes self by reference, so a flow reaches the strategy only       *)
(* through the guard.                                                       *)

\* A flow starts lock().await.
Lock(f) ==
    /\ pc[f] = "idle"
    /\ pc' = [pc EXCEPT ![f] = "waiting"]
    /\ queue' = Append(queue, f)
    /\ UNCHANGED <<kind, token, expiration_time, now, lock, net, pre, last, sent, session, chain, refresh>>

\* The mutex grants the guard to the longest-waiting flow when it is free.
CanAcquireRacy(f) == queue # <<>> /\ Head(queue) = f

CanAcquire(f) == lock = None /\ queue # <<>> /\ Head(queue) = f

Acquire(f) ==
    /\ pc[f] = "waiting"
    /\ CanAcquire(f)
    /\ lock' = Some(f)
    /\ queue' = Tail(queue)
    /\ pc' = [pc EXCEPT ![f] = "held"]
    /\ UNCHANGED <<kind, token, expiration_time, now, net, pre, last, sent, session, chain, refresh>>

\* The guard is dropped between two calls; the flow goes on to `next`.  A
\* check whose flow leaves the section before it logs in is forgotten.
drop_guard(f, next) ==
    /\ pc[f] = "held"
    /\ lock' = None
    /\ pc' = [pc EXCEPT ![f] = next]
    /\ chain' = [chain EXCEPT ![f] =
                    IF @.st = "loggedin" THEN [@ EXCEPT !.same = FALSE] ELSE NoChain]
    /\ UNCHANGED <<kind, token, expiration_time, now, queue, net, pre, last, sent, session, refresh>>

Release(f) == drop_guard(f, "idle")

DropRefRevoking(f) ==
    /\ pc[f] = "idle"
    /\ pc' = [pc EXCEPT ![f] = "dropped"]
    /\ token' = None
    /\ expiration_time' = None
    /\ UNCHANGED <<kind, now, lock, queue, net, pre, last, sent, session, chain, refresh>>

\* A flow that holds no guard drops its clone of the Arc.  Neither strategy
\* implements Drop, so no code of the handle runs, not even when the
\* clone was the last one and the strategy is freed.
DropRef(f) ==
    /\ pc[f] = "idle"
    /\ pc' = [pc EXCEPT ![f] = "dropped"]
    /\ UNCHANGED <<kind, token, expiration_time, now, lock, queue, net, pre, last,
                   sent, session, chain, refresh>>

----------------------------------------------------------------------------
(* How a call ends. *)

\* The session a PasswordAuthenticator is in once a call has returned.
SessionAfter(rec) ==
    IF kind = "Password" /\ rec.op = "login" /\ rec.val = "Ok(true)" THEN "in"
    ELSE IF kind = "Password" /\ rec.op = "logout" /\ rec.val = "Ok(())" THEN "out"
    ELSE session

\* The call returns to the flow, which still holds the guard.
Returns(f, rec, ch) ==
    /\ last' = rec
    /\ session' = SessionAfter(rec)
    /\ chain' = [chain EXCEPT ![f] = ch]
    /\ pc' = [pc EXCEPT ![f] = "held"]
    /\ net' = Without(f)
    /\ UNCHANGED <<kind, now, lock, queue>>

PanicsWithGuardLeaked(f, rec) ==
    /\ last' = rec
    /\ chain' = [chain EXCEPT ![f] = NoChain]
    /\ pc' = [pc EXCEPT ![f] = "aborted"]
    /\ net' = Without(f)
    /\ UNCHANGED <<kind, now, lock, queue, session>>

\* The call panics: the flow unwinds, which drops its guard (a tokio Mutex
\* is not poisoned), and the flow is gone.
PanicsWith(f, rec) ==
    /\ last' = rec
    /\ chain' = [chain EXCEPT ![f] = NoChain]
    /\ pc' = [pc EXCEPT ![f] = "aborted"]
    /\ lock' = None
    /\ net' = Without(f)
    /\ UNCHANGED <<kind, now, queue, session>>

Panics(f, op) == PanicsWith(f, Outcome(f, op, "panic"))

\* A call begins: remember the state it found.
Begins == pre' = [token |-> token, expiration_time |-> expiration_time]

\* What a call has sent when it reaches its first suspension point, or its
\* end if it has none: nothing, or the one request `req`.
Nothing == sent' = <<>>
Sends(req) == sent' = <<req.url>> /\ net' = net \cup {req}

----------------------------------------------------------------------------
(* AnonymousAuthenticator. *)

anonymous_login_always_false == "Ok(false)"

anonymous_login == "Ok(true)"

anonymous_logout == "Ok(())"

anonymous_headers_stripping(h) == [h EXCEPT !["authorization"] = None]

anonymous_headers(h) == h

anonymous_oauth == FALSE

anonymous_needs_token_refresh == FALSE

----------------------------------------------------------------------------
(* PasswordAuthenticator::login. *)

\* The token-exchange request of lines 118-145.
exchange_request(f, user_agent) ==
    [flow |-> f,
     url |-> "https://www.reddit.com/api/v1/access_token",
     authorization |->
        Some("Basic " \o base64_encode(client_id \o ":" \o client_secret)),
     user_agent |-> user_agent,
     body |-> "grant_type=password&username=" \o username
                 \o "&password=" \o password]

\* login up to its first suspension point (.send().await, line 146).  The
\* anonymous strategy returns at once.
login_call(f, user_agent) ==
    /\ pc[f] = "held"
    /\ Begins
    /\ UNCHANGED <<token, expiration_time>>
    /\ IF kind = "Anonymous"
       THEN Nothing /\ Returns(f, Outcome(f, "login", anonymous_login), NoChain)
       ELSE IF ~HeaderValueFromStrOk(user_agent)
       THEN Nothing /\ Panics(f, "login")             \* unwrap, line 136
       ELSE /\ Sends(exchange_request(f, user_agent))
            /\ pc' = [pc EXCEPT ![f] = "login_send"]
            /\ last' = NoCall
            /\ chain' = [chain EXCEPT ![f] = IF @.st = "saw" THEN @ ELSE NoChain]
            /\ UNCHANGED <<kind, now, lock, queue, session>>

LoginCall(f, user_agent) == login_call(f, user_agent) /\ UNCHANGED refresh

\* A call that fails with `?` returns Err and leaves self as it is.
FailsWith(f, op, state) ==
    /\ token' = state[1]
    /\ expiration_time' = state[2]
    /\ Returns(f, Outcome(f, op, "Err"), NoChain)

LoginSendRetrying(f) ==
    /\ pc[f] = "login_send"
    /\ IF Len(sent) < 2
       THEN /\ sent' = Append(sent, sent[1])
            /\ UNCHANGED <<kind, token, expiration_time, now, lock, queue, pc, net,
                           pre, last, session, chain, refresh>>
       ELSE /\ FailsWith(f, "login", <<token, expiration_time>>)
            /\ UNCHANGED <<pre, sent, refresh>>

\* .send().await fails: line 147 returns the error.
LoginSendErr(f) ==
    /\ pc[f] = "login_send"
    /\ FailsWith(f, "login", <<token, expiration_time>>)
    /\ UNCHANGED <<pre, sent, refresh>>

\* The response arrives: line 148 returns the error of a non-success
\* status, else login goes on to await the body (line 150).
LoginStatusForgetting(f, status) ==
    /\ pc[f] = "login_send"
    /\ UNCHANGED <<pre, sent, refresh>>
    /\ IF into_result(status) = "Err"
       THEN FailsWith(f, "login", <<None, None>>)
       ELSE /\ pc' = [pc EXCEPT ![f] = "login_json"]
            /\ net' = Without(f)
            /\ UNCHANGED <<kind, token, expiration_time, now, lock, queue, last,
                           session, chain>>

LoginStatus(f, status) ==
    /\ pc[f] = "login_send"
    /\ UNCHANGED <<pre, sent, refresh>>
    /\ IF into_result(status) = "Err"
       THEN FailsWith(f, "login", <<token, expiration_time>>)
       ELSE /\ pc' = [pc EXCEPT ![f] = "login_json"]
            /\ net' = Without(f)
            /\ UNCHANGED <<kind, token, expiration_time, now, lock, queue, last,
                           session, chain>>

\* Lines 151-158 for a decoded response, the clock reading `clock` and a
\* build with or without overflow checks.  token is assigned first; the
\* product expires_in * 1000 is computed in the type of expires_in and
\* cast to u128 afterwards; the clock is read last.
login_store(resp, clock, old_expiration, overflow_checks) ==
    LET x == resp.expires_in * MillisPerSecond
    IN  IF x >= ExpiresInModulus /\ overflow_checks
        THEN [panic |-> TRUE, token |-> Some(resp.access_token),
              expiration_time |-> old_expiration]        \* line 152
        ELSE IF ~duration_since_epoch_ok(clock)
        THEN [panic |-> TRUE, token |-> Some(resp.access_token),
              expiration_time |-> old_expiration]        \* line 156
        ELSE [panic |-> FALSE, token |-> Some(resp.access_token),
              expiration_time |-> Some((x % ExpiresInModulus) + clock)]

\* How the chain of a flow moves on when its login returns Ok(true).
AfterLogin(c, tok) ==
    IF c.st = "saw" THEN [st |-> "loggedin", tok |-> tok, same |-> c.same]
    ELSE NoChain

\* The body arrives (line 150): a malformed one returns the error, a
\* decoded one is stored and login returns Ok(true).
login_json(f, body, overflow_checks) ==
    /\ pc[f] = "login_json"
    /\ UNCHANGED <<pre, sent>>
    /\ IF body = Malformed
       THEN FailsWith(f, "login", <<token, expiration_time>>)
       ELSE LET r == login_store(body[1], now, expiration_time, overflow_checks)
            IN  /\ token' = r.token
                /\ expiration_time' = r.expiration_time
                /\ IF r.panic
                   THEN Panics(f, "login")
                   ELSE Returns(f,
                           [Outcome(f, "login", "Ok(true)") EXCEPT
                               !.resp = body, !.at = Some(now)],
                           AfterLogin(chain[f], r.token))

LoginJson(f, body, overflow_checks) ==
    login_json(f, body, overflow_checks) /\ UNCHANGED refresh

----------------------------------------------------------------------------
(* PasswordAuthenticator::logout. *)

revoke_request_with_basic(f, user_agent, tok) ==
    [exchange_request(f, user_agent) EXCEPT
        !.url = "https://www.reddit.com/api/v1/revoke_token",
        !.body = "token=" \o tok]

\* The revocation request of lines 163-175.
revoke_request(f, user_agent, tok) ==
    [flow |-> f,
     url |-> "https://www.reddit.com/api/v1/revoke_token",
     authorization |-> None,
     user_agent |-> user_agent,
     body |-> "token=" \o tok]

\* logout up to its suspension point (.send().await, line 177); `kept` is
\* what self.token holds while the request is in flight.
LogoutCallWith(f, user_agent, kept) ==
    /\ pc[f] = "held"
    /\ Begins
    /\ UNCHANGED <<expiration_time, refresh>>
    /\ IF kind = "Anonymous"
       THEN /\ UNCHANGED token /\ Nothing
            /\ Returns(f, Outcome(f, "logout", anonymous_logout), NoChain)
       ELSE IF is_none(token)
       THEN /\ UNCHANGED token /\ Nothing
            /\ Panics(f, "logout")                    \* unwrap, line 164
       ELSE IF ~HeaderValueFromStrOk(user_agent)
       THEN /\ UNCHANGED token /\ Nothing
            /\ Panics(f, "logout")                    \* unwrap, line 167
       ELSE /\ token' = kept
            /\ Sends(revoke_request(f, user_agent, unwrap(token)))
            /\ pc' = [pc EXCEPT ![f] = "logout_send"]
            /\ last' = NoCall
            /\ chain' = [chain EXCEPT ![f] = NoChain]
            /\ UNCHANGED <<kind, now, lock, queue, session>>

LogoutCallEager(f, user_agent) == LogoutCallWith(f, user_agent, None)

LogoutCallLenient(f, user_agent) ==
    IF kind = "Password" /\ is_none(token)
    THEN /\ pc[f] = "held"
         /\ Begins
         /\ Nothing
         /\ UNCHANGED refresh
         /\ FailsWith(f, "logout", <<token, expiration_time>>)
    ELSE LogoutCallWith(f, user_agent, token)

LogoutCall(f, user_agent) == LogoutCallWith(f, user_agent, token)

\* .send().await fails: line 177 returns the error.
LogoutSendErr(f) ==
    /\ pc[f] = "logout_send"
    /\ FailsWith(f, "logout", <<token, expiration_time>>)
    /\ UNCHANGED <<pre, sent, refresh>>

\* The response arrives: line 178 returns the error of a non-success
\* status, else lines 179-181 clear both fields and return Ok(()).
LogoutStatusWith(f, status, on_error) ==
    /\ pc[f] = "logout_send"
    /\ UNCHANGED <<pre, sent, refresh>>
    /\ IF into_result(status) = "Err"
       THEN FailsWith(f, "logout", on_error)
       ELSE /\ token' = None
            /\ expiration_time' = None
            /\ Returns(f, Outcome(f, "logout", "Ok(())"), NoChain)

LogoutStatusKeepingExpiry(f, status) ==
    /\ pc[f] = "logout_send"
    /\ UNCHANGED <<pre, sent, refresh>>
    /\ IF into_result(status) = "Err"
       THEN FailsWith(f, "logout", <<token, expiration_time>>)
       ELSE /\ token' = None
            /\ expiration_time' = expiration_time
            /\ Returns(f, Outcome(f, "logout", "Ok(())"), NoChain)

LogoutStatusClearing(f, status) == LogoutStatusWith(f, status, <<None, None>>)

LogoutStatus(f, status) ==
    LogoutStatusWith(f, status, <<token, expiration_time>>)

----------------------------------------------------------------------------
(* Cancellation: the future of a login or logout call is dropped at one of  *)
(* its suspension points (a timeout or a select around the call).  Nothing  *)
(* of the call runs after that; the request it awaited is abandoned.        *)

Cancel(f) ==
    /\ pc[f] \in {"login_send", "login_json", "logout_send"}
    /\ Returns(f,
          Outcome(f, IF pc[f] = "logout_send" THEN "logout" ELSE "login", "cancelled"),
          NoChain)
    /\ UNCHANGED <<token, expiration_time, pre, sent, refresh>>

----------------------------------------------------------------------------
(* The synchronous operations. *)

\* The Authorization value PasswordAuthenticator::headers builds (line 187).
bearer_without_token(tok) == "Bearer "

bearer(tok) == "Bearer " \o tok

\* headers(&self, headers): the anonymous strategy leaves the collection
\* alone, the password strategy inserts the bearer value; line 187 unwraps
\* twice and panics without a token and on a token that makes no legal
\* header value.
Headers(f, h) ==
    /\ pc[f] = "held"
    /\ Begins
    /\ Nothing
    /\ UNCHANGED <<token, expiration_time, refresh>>
    /\ IF kind = "Anonymous"
       THEN Returns(f,
               [Outcome(f, "headers", "Ok") EXCEPT
                   !.hin = Some(h), !.hout = Some(anonymous_headers(h))],
               NoChain)
       ELSE LET rec(val) ==
                    [Outcome(f, "headers", val) EXCEPT
                        !.hin = Some(h),
                        !.chained = (chain[f].st = "loggedin"),
                        !.own = chain[f].tok,
                        !.same = (chain[f].st = "loggedin" /\ chain[f].same)]
            IN  IF is_none(token)
                THEN PanicsWith(f, rec("panic"))
                ELSE IF ~HeaderValueFromStrOk(bearer(unwrap(token)))
                THEN PanicsWith(f, rec("panic"))
                ELSE Returns(f,
                        [rec("Ok") EXCEPT
                            !.hout = Some(insert(h, "authorization",
                                                 bearer(unwrap(token))))],
                        NoChain)

\* oauth(&self).
Oauth(f) ==
    /\ pc[f] = "held"
    /\ Begins
    /\ Nothing
    /\ UNCHANGED <<token, expiration_time, refresh>>
    /\ Returns(f,
          Outcome(f, "oauth",
                  bool_str(IF kind = "Anonymous" THEN anonymous_oauth ELSE TRUE)),
          NoChain)

\* needs_token_refresh(&self): the password strategy reads the clock first
\* (lines 196-199, panicking if it is set before the epoch).
needs_token_refresh_call(f) ==
    /\ pc[f] = "held"
    /\ Begins
    /\ Nothing
    /\ UNCHANGED <<token, expiration_time>>
    /\ IF kind = "Anonymous"
       THEN Returns(f,
               Outcome(f, "needs_token_refresh",
                       bool_str(anonymous_needs_token_refresh)),
               NoChain)
       ELSE IF ~duration_since_epoch_ok(now)
       THEN Panics(f, "needs_token_refresh")
       ELSE LET r == needs_token_refresh(expiration_time, now)
            IN  Returns(f,
                   [Outcome(f, "needs_token_refresh", bool_str(r)) EXCEPT
                       !.at = Some(now)],
                   [st |-> IF r THEN "saw" ELSE "fresh", tok |-> None,
                    same |-> TRUE])

NeedsTokenRefresh(f) == needs_token_refresh_call(f) /\ UNCHANGED refresh

----------------------------------------------------------------------------
(* The clock advances. *)

Tick ==
    /\ now + MillisPerSecond <= MaxClock
    /\ now' = now + MillisPerSecond
    /\ UNCHANGED <<kind, token, expiration_time, lock, queue, pc, net, pre, last, sent, session, chain, refresh>>

----------------------------------------------------------------------------

Next ==
    \/ Tick
    \/ \E f \in Flows :
        \/ Lock(f)
        \/ Acquire(f)
        \/ Release(f)
        \/ DropRef(f)
        \/ \E user_agent \in UserAgents : LoginCall(f, user_agent)
        \/ LoginSendErr(f)
        \/ \E status \in StatusCodes : LoginStatus(f, status)
        \/ \E body \in Bodies, overflow_checks \in BOOLEAN :
              LoginJson(f, body, overflow_checks)
        \/ \E user_agent \in UserAgents : LogoutCall(f, user_agent)
        \/ LogoutSendErr(f)
        \/ \E status \in StatusCodes : LogoutStatus(f, status)
        \/ Cancel(f)
        \/ \E h \in HeaderInputs : Headers(f, h)
        \/ Oauth(f)
        \/ NeedsTokenRefresh(f)

Spec == Init /\ [][Next]_vars

----------------------------------------------------------------------------
(* Progress.  The tokio Mutex hands a free lock to its longest-waiting      *)
(* flow; a call that is suspended is resumed (its request fails or is       *)
(* answered) or cancelled; and a flow does not keep the guard for ever: it  *)
(* drops it after finitely many calls.  Here the clock stands still and    *)
(* every flow keeps its reference: the two clock readings of Init give      *)
(* every outcome of every call, and a flow that waits for the lock holds a  *)
(* reference.                                                               *)

\* One step of a suspended login or logout of flow f.
Completes(f) ==
    \/ LoginSendErr(f)
    \/ \E status \in StatusCodes : LoginStatus(f, status)
    \/ \E body \in Bodies, overflow_checks \in BOOLEAN :
          LoginJson(f, body, overflow_checks)
    \/ LogoutSendErr(f)
    \/ \E status \in StatusCodes : LogoutStatus(f, status)
    \/ Cancel(f)

Fairness ==
    \A f \in Flows :
        /\ WF_vars(Acquire(f))
        /\ WF_vars(Completes(f))
        /\ SF_vars(Release(f))

\* The calls of flow f on the handle it holds.
Calls(f) ==
    \/ \E user_agent \in UserAgents : LoginCall(f, user_agent)
    \/ \E user_agent \in UserAgents : LogoutCall(f, user_agent)
    \/ \E h \in HeaderInputs : Headers(f, h)
    \/ Oauth(f)
    \/ NeedsTokenRefresh(f)

NextLive ==
    \E f \in Flows :
        \/ Lock(f)
        \/ Acquire(f)
        \/ Release(f)
        \/ Calls(f)
        \/ Completes(f)

SpecLive == Init /\ [][NextLive]_vars /\ Fairness

----------------------------------------------------------------------------
(* The refresh scenario: every flow runs the sequence the callers of the    *)
(* handle are asked to run before a request, once, inside one exclusive     *)
(* section: take the lock, ask needs_token_refresh, log in if it said       *)
(* true, release.  The endpoint's invocations are counted.                  *)

InitRefresh == Init /\ kind = "Password"

RefreshCheck(f) ==
    /\ chain[f].st = "none"
    /\ last.flow # f
    /\ needs_token_refresh_call(f)
    /\ refresh' = [refresh EXCEPT !.checked[f] = last'.at]

RefreshLogin(f, user_agent) ==
    /\ chain[f].st = "saw"
    /\ login_call(f, user_agent)
    /\ refresh' = [refresh EXCEPT !.exchanges =
                      IF pc'[f] = "login_send" THEN Append(@, f) ELSE @]

RefreshJson(f, body, overflow_checks) ==
    /\ login_json(f, body, overflow_checks)
    /\ refresh' = [refresh EXCEPT !.stored[f] =
                      IF last'.val = "Ok(true)" THEN expiration_time' ELSE None]

RefreshRelease(f) ==
    /\ last.flow = f
    /\ \/ last.op = "login"
       \/ last.op = "needs_token_refresh" /\ last.val = "false"
    /\ drop_guard(f, "done")

NextRefresh ==
    \/ Tick
    \/ \E f \in Flows :
        \/ Lock(f)
        \/ Acquire(f)
        \/ RefreshCheck(f)
        \/ \E user_agent \in UserAgents : RefreshLogin(f, user_agent)
        \/ LoginSendErr(f)
        \/ \E status \in StatusCodes : LoginStatus(f, status)
        \/ \E body \in Bodies, overflow_checks \in BOOLEAN :
              RefreshJson(f, body, overflow_checks)
        \/ Cancel(f)
        \/ RefreshRelease(f)

SpecRefresh == InitRefresh /\ [][NextRefresh]_vars

----------------------------------------------------------------------------
(* Properties. *)

InCall == {"login_send", "login_json", "logout_send"}
Unchanged == token = pre.token /\ expiration_time = pre.expiration_time
ExchangeUrl == "https://www.reddit.com/api/v1/access_token"
RevokeUrl == "https://www.reddit.com/api/v1/revoke_token"

\* C1: whenever no operation holds the handle's lock, a PasswordAuthenticator
\* has a token if and only if it has an expiration_time.
C1_TokenExpiryPaired ==
    (kind = "Password" /\ lock = None)
        => (is_some(token) <=> is_some(expiration_time))

\* C2: a login that fails (transport failure, non-success status, malformed
\* body) returns an error and leaves token and expiration_time as they were
\* when it was called.
C2_FailedLoginKeepsState ==
    (kind = "Password" /\ last.op = "login" /\ last.val = "Err") => Unchanged

\* A login failed while a token was held, and the token is still there.
C2_Witness ==
    /\ kind = "Password" /\ last.op = "login" /\ last.val = "Err"
    /\ is_some(pre.token) /\ token = pre.token

\* C3: a logout called with a token held either fails, returning an error
\* with token and expiration_time unchanged, or succeeds, returning Ok with
\* both absent.
C3_LogoutClearsOnlyOnSuccess ==
    (kind = "Password" /\ last.op = "logout" /\ is_some(pre.token)) =>
        /\ last.val = "Err" => Unchanged
        /\ last.val = "Ok(())" => is_none(token) /\ is_none(expiration_time)

\* A revocation failed and the token is still held.
C3_Witness ==
    /\ kind = "Password" /\ last.op = "logout" /\ last.val = "Err"
    /\ is_some(token) /\ is_some(expiration_time)

\* C4: at every suspension point of login and logout, and after a
\* cancellation there, token and expiration_time are what they were when
\* the call started.
C4_CancelKeepsState ==
    /\ (\E f \in Flows : pc[f] \in InCall) => Unchanged
    /\ last.val = "cancelled" => Unchanged

\* A call was cancelled while a token was held.
C4_Witness ==
    /\ last.val = "cancelled" /\ is_some(pre.token) /\ is_some(token)

\* C5: at most one flow is inside the handle at any time, it holds the lock
\* for the whole of a call, network round trip included, and at most one
\* token-exchange request is in flight.
C5_OneOperationAtATime ==
    /\ \A f \in Flows : pc[f] \in InCall \cup {"held"} => lock = Some(f)
    /\ Cardinality({f \in Flows : pc[f] \in InCall \cup {"held"}}) <= 1
    /\ Cardinality({r \in net : r.url = ExchangeUrl}) <= 1
    /\ Cardinality(net) <= 1

\* A token exchange is in flight while another flow waits for the lock.
C5_Witness ==
    \E f, g \in Flows :
        /\ pc[f] = "login_send" /\ pc[g] = "waiting"
        /\ \E r \in net : r.flow = f /\ r.url = ExchangeUrl

Finished == \A f \in Flows : pc[f] \in {"done", "aborted"}

\* The first login of the scenario succeeded and every other flow made its
\* check before the expiry that login stored.
FirstLoginStillFresh ==
    /\ refresh.exchanges # <<>>
    /\ LET f == refresh.exchanges[1]
       IN  /\ is_some(refresh.stored[f])
           /\ \A g \in Flows \ {f} :
                /\ is_some(refresh.checked[g])
                /\ unwrap(refresh.checked[g]) < unwrap(refresh.stored[f])

\* C6: when every flow runs check-then-login inside one exclusive section
\* and the first login succeeds with an expiry that is still in the future
\* at the other flows' checks, the token-exchange endpoint is invoked
\* exactly once; and while a login is in flight every other flow is outside
\* the handle, waiting or not yet arrived.
C6_NoDuplicateRefresh ==
    /\ (Finished /\ FirstLoginStillFresh) => Len(refresh.exchanges) = 1
    /\ \A f, g \in Flows :
          (f # g /\ pc[f] \in InCall) =>
              pc[g] \in {"idle", "waiting", "done", "aborted"}

\* All flows ran their section, one logged in, the others found the token
\* fresh.
C6_Witness ==
    /\ Finished /\ FirstLoginStillFresh
    /\ \A f \in Flows : pc[f] = "done"

\* C7 as stated: a flow that saw needs_token_refresh() = true, logged in
\* successfully and then calls headers injects the token its own login
\* returned, whether or not it kept the lock in between (stated here for
\* the runs in which no flow has panicked).
C7_InjectsOwnToken ==
    (last.op = "headers" /\ last.val = "Ok" /\ last.chained
        /\ \A f \in Flows : pc[f] # "aborted") =>
        unwrap(last.hout)["authorization"] = Some("Bearer " \o unwrap(last.own))

\* C7 amended: the same, for a flow that holds the lock from the check to
\* the call of headers; when the token its login returned makes no legal
\* header value, headers aborts instead of injecting it (see C14).
C7_InjectsOwnTokenInOneSection ==
    (last.op = "headers" /\ last.chained /\ last.same) =>
        /\ pre.token = last.own
        /\ IF HeaderValueFromStrOk("Bearer " \o unwrap(last.own))
           THEN /\ last.val = "Ok"
                /\ unwrap(last.hout)["authorization"] =
                      Some("Bearer " \o unwrap(last.own))
           ELSE last.val = "panic"

\* Such a flow injected its token while another flow was waiting for the
\* lock.
C7_Witness ==
    /\ last.op = "headers" /\ last.chained /\ last.same /\ last.val = "Ok"
    /\ \E g \in Flows : g # last.flow /\ pc[g] = "waiting"

\* C8: with expiration_time = T and the clock read as now,
\* needs_token_refresh returns false when now < T and true when now >= T,
\* returns true without an expiration_time, and changes no state.
C8_RefreshThreshold ==
    (kind = "Password" /\ last.op = "needs_token_refresh" /\ is_some(last.at)) =>
        /\ Unchanged
        /\ is_none(expiration_time) => last.val = "true"
        /\ is_some(expiration_time) =>
              /\ unwrap(last.at) < unwrap(expiration_time) => last.val = "false"
              /\ unwrap(last.at) >= unwrap(expiration_time) => last.val = "true"

\* The clock stood exactly at the expiry and the answer was true.
C8_Witness ==
    /\ kind = "Password" /\ last.op = "needs_token_refresh"
    /\ is_some(expiration_time) /\ last.at = expiration_time
    /\ last.val = "true"

\* C9: a login that returns Ok(true) has stored the response's access_token
\* and the expiry clock + expires_in * 1000, whatever was held before.
C9_LoginStoresExpiry ==
    (kind = "Password" /\ last.op = "login" /\ last.val = "Ok(true)") =>
        /\ token = Some(unwrap(last.resp).access_token)
        /\ expiration_time =
              Some(unwrap(last.at) + unwrap(last.resp).expires_in * 1000)

\* C10: on an AnonymousAuthenticator every login returns Ok(true), every
\* logout Ok, needs_token_refresh and oauth false, no call fails, suspends
\* or panics, and no request is ever sent.
C10_AnonymousNeverFails ==
    kind = "Anonymous" =>
        /\ last.op = "login" => last.val = "Ok(true)"
        /\ last.op = "logout" => last.val = "Ok(())"
        /\ last.op = "needs_token_refresh" => last.val = "false"
        /\ last.op = "oauth" => last.val = "false"
        /\ last.op = "headers" => last.val = "Ok"
        /\ net = {}
        /\ \A f \in Flows : pc[f] \notin InCall \cup {"aborted"}

\* An anonymous login returned Ok(true) to one flow after another flow had
\* used the handle.
C10_Witness ==
    /\ kind = "Anonymous" /\ last.op = "login" /\ last.val = "Ok(true)"
    /\ \E g \in Flows : g # last.flow /\ pc[g] = "waiting"

\* C11: AnonymousAuthenticator.headers hands the caller's header collection
\* back as it received it, whatever the collection held: no header is
\* added, removed or replaced.
C11_AnonymousHeadersUntouched ==
    (kind = "Anonymous" /\ last.op = "headers") =>
        /\ last.val = "Ok"
        /\ \A n \in HeaderNames : unwrap(last.hout)[n] = unwrap(last.hin)[n]

\* An anonymous handle was given a collection that already carried an
\* Authorization header.
C11_Witness ==
    /\ kind = "Anonymous" /\ last.op = "headers"
    /\ unwrap(last.hin)["authorization"] = Some("Basic old")
    /\ unwrap(last.hout)["authorization"] = Some("Basic old")

\* C12: on a PasswordAuthenticator that holds no token, logout and headers
\* abort the calling flow instead of returning an error; logout aborts
\* before it has sent a revocation request, and token and expiration_time
\* are still absent afterwards.
C12_NoTokenAborts ==
    (kind = "Password" /\ last.op \in {"logout", "headers"} /\ is_none(pre.token)) =>
        /\ last.val = "panic"
        /\ pc[last.flow] = "aborted"
        /\ lock # Some(last.flow)
        /\ sent = <<>> /\ net = {}
        /\ is_none(token) /\ is_none(expiration_time)

\* A logout succeeded, and the next logout on the handle, by another flow,
\* aborted.
C12_Witness ==
    /\ kind = "Password" /\ last.op = "logout" /\ last.val = "panic"
    /\ is_none(pre.token) /\ is_none(token)
    /\ session = "out"
    /\ \E g \in Flows : g # last.flow /\ pc[g] # "aborted"

\* C13: no call retries or logs in on its own: a login call issues at most
\* one token-exchange request and a logout call at most one revocation
\* request, whether it succeeds, fails or is cancelled, and
\* needs_token_refresh and headers issue none and change nothing, also
\* when the token is absent or expired.
C13_NoRetry ==
    /\ \A f \in Flows :
          /\ pc[f] \in {"login_send", "login_json"} => sent = <<ExchangeUrl>>
          /\ pc[f] = "logout_send" => sent = <<RevokeUrl>>
    /\ \A r \in net : pc[r.flow] \in {"login_send", "logout_send"}
    /\ last.op = "login" => sent \in {<<>>, <<ExchangeUrl>>}
    /\ last.op = "logout" => sent \in {<<>>, <<RevokeUrl>>}
    /\ last.op \in {"needs_token_refresh", "headers", "oauth"} =>
          sent = <<>> /\ net = {} /\ Unchanged

\* A login failed after its one request and left the handle without a
\* token; nothing was sent again.
C13_Witness ==
    /\ kind = "Password" /\ last.op = "login" /\ last.val = "Err"
    /\ sent = <<ExchangeUrl>> /\ net = {} /\ is_none(token)

\* C14: on a PasswordAuthenticator holding token t, headers sets the
\* Authorization header to "Bearer t", replacing a value that was there,
\* leaves every other header as it was and token and expiration_time
\* unchanged, before and after the token has expired.
C14_HeadersInjectsBearer ==
    (kind = "Password" /\ last.op = "headers" /\ is_some(pre.token)) =>
        /\ last.val = "Ok"
        /\ unwrap(last.hout)["authorization"] = Some("Bearer " \o unwrap(pre.token))
        /\ \A n \in HeaderNames \ {"authorization"} :
              unwrap(last.hout)[n] = unwrap(last.hin)[n]
        /\ Unchanged

\* C15: from construction until the first login that returns Ok(true), and
\* from every logout that returns Ok(()) until the next such login,
\* needs_token_refresh returns true whatever the clock reads, whichever
\* login and logout calls failed or were cancelled in between.
C15_RefreshUntilLogin ==
    (kind = "Password" /\ session \in {"new", "out"}) =>
        /\ (last.op = "needs_token_refresh" /\ is_some(last.at)) => last.val = "true"
        /\ \A i \in {0, now, MaxClock} :
              duration_since_epoch_ok(i) => needs_token_refresh(expiration_time, i)

\* A login and then a logout had succeeded, and a check made later on the
\* clock said true.
C15_Witness ==
    /\ kind = "Password" /\ session = "out"
    /\ last.op = "needs_token_refresh" /\ last.val = "true"
    /\ unwrap(last.at) > 0

\* C16: a revocation request carries the token the handle holds when logout
\* is called, the one stored last, and no Basic authorization header; a
\* token-exchange request carries the Basic header built from
\* client_id:client_secret.
C16_RequestContents ==
    \A r \in net :
        /\ r.url \in {ExchangeUrl, RevokeUrl}
        /\ r.url = RevokeUrl =>
              /\ is_some(pre.token) /\ token = pre.token
              /\ r.body = "token=" \o unwrap(token)
              /\ r.authorization = None
        /\ r.url = ExchangeUrl =>
              /\ r.authorization = Some("Basic " \o base64_encode("cid:csec"))
              /\ r.body = "grant_type=password&username=alice&password=pw1"

\* A revocation of the token the last login stored is in flight.
C16_Witness ==
    /\ session = "in" /\ token = Some("tokA")
    /\ \E r \in net : r.url = RevokeUrl /\ r.body = "token=tokA"

\* No flow holds a reference to the handle any more.
AllReleased == \A f \in Flows : pc[f] \in {"dropped", "aborted"}

\* C17: dropping a reference to the handle, the last one included, sends
\* no revocation request and changes neither token nor expiration_time; a
\* revocation request is only ever sent by a call of logout and the token
\* only ever cleared by a logout that succeeds, so a handle dropped while
\* logged in leaves its token unrevoked.
C17_DropRevokesNothing ==
    [][ /\ (\E f \in Flows : pc[f] # "dropped" /\ pc'[f] = "dropped") =>
              /\ net' = net /\ sent' = sent
              /\ token' = token /\ expiration_time' = expiration_time
        /\ (\E r \in net' \ net : r.url = RevokeUrl) =>
              \E f \in Flows : pc[f] = "held" /\ pc'[f] = "logout_send"
        /\ (is_some(token) /\ is_none(token')) =>
              last'.op = "logout" /\ last'.val = "Ok(())"
        /\ (AllReleased' /\ session' = "in") =>
              is_some(token') /\ is_some(expiration_time') /\ net' = {}
      ]_vars

\* Every flow has dropped its reference during a session whose token has
\* not expired yet.
C17_Witness ==
    /\ \A f \in Flows : pc[f] = "dropped"
    /\ kind = "Password" /\ session = "in"
    /\ is_some(token) /\ now < unwrap(expiration_time)
    /\ net = {} /\ last.op = "login" /\ sent = <<ExchangeUrl>>

\* The call that completed last on the handle told its flow that a token
\* is there: needs_token_refresh said false, or login returned Ok(true).
ToldFresh ==
    \/ last.op = "needs_token_refresh" /\ last.val = "false"
    \/ last.op = "login" /\ last.val = "Ok(true)"

\* C18: whenever needs_token_refresh returns false (whenever an
\* expiration_time is held) a token is held, and a flow whose call of
\* headers follows, under the guard it still holds, its own check that
\* said false or its own login that returned Ok(true) finds a token: it
\* does not reach the abort on a missing token, whatever the other flows
\* did before and are waiting to do.
C18_FreshMeansToken ==
    [][ kind = "Password" =>
          /\ (last'.op = "needs_token_refresh" /\ last'.val = "false") =>
                is_some(token')
          /\ is_some(expiration_time') => is_some(token')
          /\ \A f \in Flows :
                (/\ ToldFresh /\ last.flow = f /\ pc[f] = "held"
                 /\ last'.flow = f /\ last'.op = "headers") =>
                    /\ is_some(pre'.token)
                    /\ last'.val = "panic" =>
                          ~HeaderValueFromStrOk("Bearer " \o unwrap(pre'.token))
      ]_vars

\* A flow injected the token of its own login, made in the same section,
\* after another flow had aborted and while the token was still fresh.
C18_Witness ==
    /\ kind = "Password" /\ last.op = "headers" /\ last.val = "Ok"
    /\ last.chained /\ last.same /\ pre.token = last.own
    /\ now < unwrap(expiration_time)
    /\ \E g \in Flows : g # last.flow /\ pc[g] = "aborted"

\* C19: a flow that waits for the lock acquires it, given that every call
\* of a holder returns, fails, is cancelled or aborts and that holders drop
\* the guard after their calls; the lock is held only by a flow that is
\* still there, so no failed, cancelled or aborted login or logout leaves
\* it taken for ever.
C19_WaiterAcquires ==
    /\ [](\A f \in Flows :
            lock = Some(f) => pc[f] \in InCall \cup {"held"})
    /\ \A f \in Flows : (pc[f] = "waiting") ~> (pc[f] = "held")

\* A flow holds the lock that the flow before it lost by aborting in login
\* after its request had been sent.
C19_Witness ==
    \E f, g \in Flows :
        /\ pc[f] = "held" /\ lock = Some(f)
        /\ pc[g] = "aborted" /\ last.flow = g
        /\ last.op = "login" /\ last.val = "panic" /\ sent = <<ExchangeUrl>>

====
